---- MODULE Spec2Model ----
(***************************************************************************)
(* The Monte Carlo engine of shellfish_app.py: the samplers, the           *)
(* Beta-Binomial dose-response function, and run_shellfish_qmra_advanced   *)
(* as a sequence of batch steps (Spec, FairSpec); and main from the loaded *)
(* tables through check_data_quality to the end of its run loop (MainSpec).*)
(*                                                                         *)
(* Reals are fixed-point integers in units of 1/FP; NaN and PosInf are two *)
(* reserved values with IEEE/NumPy arithmetic.  The global NumPy generator *)
(* (np.random) is the variable rng: every draw reads it and advances it.   *)
(* Two-dimensional arrays (iterations x num_people) are kept flattened in  *)
(* row-major order, as the code itself flattens and reshapes them.         *)
(***************************************************************************)
EXTENDS Integers, Sequences, FiniteSets, TLC

VARIABLES
    rng,                  \* state of the global generator np.random
    pc,                   \* position of the current call
    fn,                   \* the function that was called
    args,                 \* the call's arguments
    draws,                \* random variates drawn since the call began
    error,                \* the exception the call raised, "" when none
    effluent_conc,        \* locals of run_shellfish_qmra_advanced
    treated_conc,
    dilution_sampled,
    site_conc,
    samples,              \* the list of sample_meal_size_loglogistic
    meal_sizes,
    bafs,
    doses_continuous,
    doses_discrete,
    p_infection,
    infected,
    ill,
    total_infections_all,
    total_illness_all,
    results,              \* <<the returned Site Result>>, <<>> when none
    sites_df,             \* locals of main: the two uploaded tables
    dilutions_df,
    quality_report,       \* <<the report of check_data_quality>>, <<>> when none
    main_pc,              \* position of main, "none" when main is not running
    idx,                  \* position of the run loop in sites_df
    all_results           \* the Site Results appended so far

vars == <<rng, pc, fn, args, draws, error, effluent_conc, treated_conc,
          dilution_sampled, site_conc, samples, meal_sizes, bafs,
          doses_continuous, doses_discrete, p_infection, infected, ill,
          total_infections_all, total_illness_all, results,
          sites_df, dilutions_df, quality_report, main_pc, idx, all_results>>

\* the locals of main
mainVars == <<sites_df, dilutions_df, quality_report, main_pc, idx, all_results>>

-----------------------------------------------------------------------------
(* Bounds of the model *)

MaxIterations == 2
MaxPeople == 2
MaxDilutions == 2
MaxDose == 3
MaxSites == 2

-----------------------------------------------------------------------------
(* Floating point *)

FP == 1000
NaN == 2000000001
PosInf == 2000000000

\* a finite double near 1e306: ln Gamma of it exceeds the largest double
HUGE == 1999999999

IsNaN(x) == x = NaN
IsFinite(x) == x # NaN /\ x # PosInf

\* a / b on NumPy floats: division by zero warns and gives inf or nan
FDiv(a, b) ==
    IF IsNaN(a) \/ IsNaN(b) THEN NaN
    ELSE IF b = PosInf THEN (IF a = PosInf THEN NaN ELSE 0)
    ELSE IF a = PosInf THEN PosInf
    ELSE IF b = 0 THEN (IF a = 0 THEN NaN ELSE PosInf)
    ELSE (a * FP) \div b

\* a * b on NumPy floats
FMul(a, b) ==
    IF IsNaN(a) \/ IsNaN(b) THEN NaN
    ELSE IF a = PosInf \/ b = PosInf
         THEN (IF a = 0 \/ b = 0 THEN NaN ELSE PosInf)
    ELSE (a * b) \div FP

Abs(x) == IF x < 0 THEN 0 - x ELSE x

RECURSIVE ISqrtIn(_, _, _)
ISqrtIn(n, lo, hi) ==
    IF lo >= hi THEN lo
    ELSE LET mid == (lo + hi + 1) \div 2
         IN IF mid * mid <= n THEN ISqrtIn(n, mid, hi)
                              ELSE ISqrtIn(n, lo, mid - 1)

\* np.sqrt on a non-negative fixed-point argument given unscaled
ISqrt(n) == ISqrtIn(n, 0, 46340)

RECURSIVE SeqSum(_)
SeqSum(s) == IF Len(s) = 0 THEN 0 ELSE Head(s) + SeqSum(Tail(s))

-----------------------------------------------------------------------------
(* Global parameters *)

ALPHA == 40
BETA == 55
MHF_MEAN == 18500
PR_ILLNESS_GIVEN_INFECTION == 600
MEAL_SIZE_MIN == 5000
MEAL_SIZE_MAX == 800000
BAF_MEAN == 18500
BAF_STD == 5200

-----------------------------------------------------------------------------
(* The global generator *)

RngModulus == 8
RngNext(s) == (5 * s + 3) % RngModulus

RECURSIVE RngAdvance(_, _)
RngAdvance(s, n) == IF n <= 0 THEN s ELSE RngAdvance(RngNext(s), n - 1)

\* the raw output of the k-th draw (k >= 1) made from state s
RawAt(s, k) == RngAdvance(s, k - 1)

\* np.random.random(): a uniform variate in [0, 1), increasing with the raw
\* output and tabulated so that both segment boundaries of the hockey-stick
\* transform (0.5 and 0.95) and each side of them occur
UniformGrid == <<0, 125, 375, 500, 625, 900, 950, 975>>
Uniform(raw) == UniformGrid[(raw * Len(UniformGrid)) \div RngModulus + 1]

\* np.random.binomial(1, p) for one cell: success when the variate is below p
Bernoulli(raw, p) == IF Uniform(raw) < p THEN 1 ELSE 0

-----------------------------------------------------------------------------
(* Dose-response model *)

\* exp(gammaln(BETA + d) + gammaln(ALPHA + BETA) - gammaln(ALPHA + BETA + d)
\*     - gammaln(BETA)) for an integer-valued d >= 0: by Gamma(x + 1) = x Gamma(x)
\* it is the product over k < d of (BETA + k) / (ALPHA + BETA + k), here
\* accumulated in fixed point with rounding to nearest.
RECURSIVE ProbComplement(_)
ProbComplement(d) ==
    IF d <= 0 THEN FP
    ELSE LET num == BETA + (d - 1) * FP
             den == ALPHA + BETA + (d - 1) * FP
         IN (ProbComplement(d - 1) * num + den \div 2) \div den

\* gammaln(x) is inf: x is inf, or ln Gamma(x) is beyond the double range
GammaLnOverflows(x) == x = PosInf \/ x = HUGE

\* 1.0 - np.exp(log_prob_complement) for one dose.  When gammaln(BETA + dose)
\* and gammaln(ALPHA + BETA + dose) are both inf the sum is inf - inf = nan, and
\* nan stays nan through np.exp and the subtraction.  fperr is the rounding
\* error the four-term floating sum carries into the complement.
RawProb(dose, fperr) ==
    IF IsNaN(dose) \/ GammaLnOverflows(dose) THEN NaN
    ELSE FP - (ProbComplement(dose) + fperr)

\* np.maximum and np.minimum return nan when either operand is nan
NpMaximum(a, b) == IF IsNaN(a) \/ IsNaN(b) THEN NaN ELSE IF a >= b THEN a ELSE b
NpMinimum(a, b) == IF IsNaN(a) \/ IsNaN(b) THEN NaN ELSE IF a <= b THEN a ELSE b

\* beta_binomial_infection_prob for one element of the dose vector
beta_binomial_infection_prob(dose, fperr) ==
    NpMinimum(NpMaximum(RawProb(dose, fperr), 0), FP)

\* np.random.binomial(1, p) refuses a p that is nan or outside [0, 1]
ValidProbability(p) == IsFinite(p) /\ 0 <= p /\ p <= FP

\* discretize_dose for one finite non-negative element, given one raw draw
discretize_dose(dose, raw) ==
    LET integer_part == dose \div FP
        fractional_part == dose - integer_part * FP
    IN integer_part + Bernoulli(raw, fractional_part)

\* np.floor(dose).astype(int) is out of the int64 range: the cast gives
\* INT64_MIN (or INT64_MAX where the conversion saturates), and in both cases
\* dose - integer_part is far above 1
Int64CastOverflows(dose) == dose = PosInf \/ dose = HUGE

\* the fractional parts handed to np.random.binomial are all valid
Discretizable(doses) ==
    \A k \in 1..Len(doses) :
        ~IsNaN(doses[k]) /\ ~Int64CastOverflows(doses[k]) /\ doses[k] >= 0

-----------------------------------------------------------------------------
(* Distribution samplers *)

\* scipy.stats.fisk.rvs(MEAL_SIZE_A, loc=MEAL_SIZE_G, scale=MEAL_SIZE_B):
\* the inverse CDF at the uniform variate, tabulated at five quantiles that
\* lie below, on and above the truncation limits (grams, fixed point)
FiskQuantiles == <<2000, 5000, 75000, 800000, 1200000>>
FiskRvs(raw) == FiskQuantiles[(raw * Len(FiskQuantiles)) \div RngModulus + 1]

\* the acceptance test without its upper limit
MealAccepted_NoUpperLimit(sample) == MEAL_SIZE_MIN <= sample

\* the acceptance test of sample_meal_size_loglogistic
MealAccepted(sample) == MEAL_SIZE_MIN <= sample /\ sample <= MEAL_SIZE_MAX

\* np.random.normal(mean, std): mean + z * std with z tabulated in tenths
NormalZ == <<0 - 40, 0 - 34, 0, 10, 30>>
NormalRvs(raw, mean, std) ==
    mean + (NormalZ[(raw * Len(NormalZ)) \div RngModulus + 1] * std) \div 10

\* the variates returned as drawn
sample_baf_Unclamped(s, n) ==
    [k \in 1..n |-> NormalRvs(RawAt(s, k), BAF_MEAN, BAF_STD)]

\* sample_baf: n normal variates from generator state s, floored at 1.0
sample_baf(s, n) ==
    [k \in 1..n |-> NpMaximum(NormalRvs(RawAt(s, k), BAF_MEAN, BAF_STD), FP)]

PERCENTILE_BREAK == 950

\* xp = x50 + (x100 - x50) * percentile_break
BreakPoint(x50, x100, percentile_break) ==
    x50 + ((x100 - x50) * percentile_break) \div FP

\* lower segment: x0 + np.sqrt(u * 2 * (x50 - x0) / h1); it is reached only
\* when x50 # x0 (h1 divides by x50 - x0), and then (x50 - x0) / h1 = (x50 - x0)^2
LowerSegment(u, x0, x50) == x0 + (Abs(x50 - x0) * ISqrt(u * 2 * FP)) \div FP

\* the middle segment without the division by the width of its u-interval
MiddleSegment_Unscaled(u, x50, xp, percentile_break) ==
    x50 + ((u - FP \div 2) * (xp - x50)) \div FP

\* middle segment: x50 + (u - 0.5) * (xp - x50) / (percentile_break - 0.5)
MiddleSegment(u, x50, xp, percentile_break) ==
    x50 + ((u - FP \div 2) * (xp - x50)) \div (percentile_break - FP \div 2)

\* tail segment: xp + (u - percentile_break) * (x100 - xp) / (1 - percentile_break)
TailSegment(u, xp, x100, percentile_break) ==
    xp + ((u - percentile_break) * (x100 - xp)) \div (FP - percentile_break)

\* the three-branch transform of sample_hockey_stick_concentration
\* with x100 = inf the breakpoint is inf: the middle segment is inf and the
\* tail, which subtracts xp from x100, is nan
HockeyStickTransform(u, x0, x50, x100, percentile_break) ==
    LET xp == BreakPoint(x50, x100, percentile_break)
    IN IF u <= FP \div 2
       THEN LowerSegment(u, x0, x50)
       ELSE IF x100 = PosInf
       THEN (IF u <= percentile_break THEN PosInf ELSE NaN)
       ELSE IF u <= percentile_break
       THEN MiddleSegment(u, x50, xp, percentile_break)
       ELSE TailSegment(u, xp, x100, percentile_break)

\* h1 = 2 * 0.5 / (x50 - x0) on the Python numbers main passes
HockeyStickRaises(x0, x50) == x50 = x0

sample_hockey_stick_concentration(s, n, x0, x50, x100, percentile_break) ==
    [k \in 1..n |->
        HockeyStickTransform(Uniform(RawAt(s, k)), x0, x50, x100, percentile_break)]

\* np.random.triangular(left, mode, right, size): its argument checks
TriangularRaises(left, mode, right, n) ==
    left > mode \/ mode > right \/ left = right \/ n < 0

\* np.random.triangular for one variate: inverse CDF in two branches
TriangularTransform(u, left, mode, right) ==
    LET base == right - left
        leftbase == mode - left
        leftprod == (leftbase * base) \div FP
        rightprod == ((right - mode) * base) \div FP
    IN IF u * base <= leftbase * FP
       THEN left + ISqrt(u * leftprod)
       ELSE right - ISqrt((FP - u) * rightprod)

Triangular(s, n, left, mode, right) ==
    [k \in 1..n |-> TriangularTransform(Uniform(RawAt(s, k)), left, mode, right)]

\* the observations kept as they are
RemoveNaN_Keep(data) == data

\* dilution_data[~np.isnan(dilution_data)]
RemoveNaN(data) == SelectSeq(data, LAMBDA x : ~IsNaN(x))

\* the observation set is checked only when samples are asked for
EcdfRaises_OnlyWhenSampling(data, n) ==
    (n > 0 /\ \A k \in 1..Len(data) : data[k] = NaN) \/ n < 0

\* sample_ecdf raises on an empty cleaned set; np.random.choice on size < 0
EcdfRaises(data, n) == Len(RemoveNaN(data)) = 0 \/ n < 0

\* np.random.choice(data, size=n, replace=True) from generator state s
RandomChoice(s, data, n) ==
    [k \in 1..n |-> data[(RawAt(s, k) * Len(data)) \div RngModulus + 1]]

sample_ecdf(s, data, n) == RandomChoice(s, RemoveNaN(data), n)

-----------------------------------------------------------------------------
(* Inputs *)

\* (effluent_min, effluent_median, effluent_max) as check_data_quality
\* accepts them: positive and min < median < max
ValidRange == <<10000, 20000, 40000>>

\* ranges it rejects: a zero minimum, min = median, min > median, median > max
InvalidRanges ==
    {<<0, 20000, 40000>>, <<20000, 20000, 40000>>,
     <<30000, 20000, 40000>>, <<10000, 40000, 20000>>}

RECURSIVE SeqsUpTo(_, _)
SeqsUpTo(S, n) ==
    IF n = 0 THEN {<<>>}
    ELSE LET shorter == SeqsUpTo(S, n - 1)
         IN shorter \cup {Append(q, x) : q \in shorter, x \in S}

\* dilution arrays of positive finite values
ValidDilutions == SeqsUpTo({2000, 4000}, MaxDilutions) \ {<<>>}

\* dilution arrays that are empty or hold a missing or a zero value
InvalidDilutions ==
    {d \in SeqsUpTo({NaN, 0, 2000}, MaxDilutions) :
        d = <<>> \/ \E k \in 1..Len(d) : d[k] \in {NaN, 0}}

ArgsOf(dilutions, ranges, peoples, iters, modes, hockey, variable) ==
    [site_name : {"Site A"},
     dilution_data : dilutions,
     effluent : ranges,
     log_removal_wwtp : {1},
     num_people : peoples,
     iterations : iters,
     mode : modes,
     meal_size_fixed : {50000},
     mhf_fixed : {MHF_MEAN},
     use_hockey_stick : hockey,
     use_variable_baf : variable]

\* the calls main makes after a passed quality report, then calls with one
\* kind of invalid input each: effluent range, iteration count, dilution data;
\* last, an infinite dilution, which the quality report's sign check accepts
RunArgs ==
    ArgsOf(ValidDilutions, {ValidRange}, 1..MaxPeople, 1..MaxIterations,
           {"simple"}, BOOLEAN, {FALSE})
    \cup ArgsOf(ValidDilutions, {ValidRange}, 1..MaxPeople, 1..MaxIterations,
                {"advanced"}, BOOLEAN, BOOLEAN)
    \cup ArgsOf({<<2000>>}, InvalidRanges, {1}, 1..MaxIterations,
                {"simple"}, BOOLEAN, {FALSE})
    \cup ArgsOf({<<2000>>}, {ValidRange}, {1}, {0 - 1, 0},
                {"simple", "advanced"}, BOOLEAN, {FALSE})
    \cup ArgsOf(InvalidDilutions, {ValidRange}, {1}, 0..MaxIterations,
                {"simple"}, BOOLEAN, {FALSE})
    \cup ArgsOf({<<PosInf>>}, {ValidRange}, {1}, {1},
                {"simple"}, BOOLEAN, {FALSE})

\* calls of sample_hockey_stick_concentration: ranges with x0 < x50 < x100,
\* the default breakpoint and another one
HockeyStickArgs ==
    [n_samples : {1},
     range : {ValidRange, <<1000, 3000, 10000>>, <<5000, 6000, 50000>>},
     percentile_break : {900, PERCENTILE_BREAK}]

\* continuous doses handed to discretize_dose directly: whole numbers,
\* fractions, and a finite dose beyond the int64 range
ContinuousDoseInputs ==
    {k * FP : k \in 0..MaxDose} \cup {250, 1500, 2750} \cup {HUGE}

\* doses handed to beta_binomial_infection_prob directly
DoseInputs == (0..MaxDose) \cup {HUGE, PosInf, NaN}

\* the dose argument after np.atleast_1d: a vector of one or two doses
DoseVectors == {<<d>> : d \in DoseInputs} \cup (DoseInputs \X DoseInputs)

\* the floating sum is off by at most one unit in the last place
RoundingErrors == {0 - 1, 0, 1}

\* number of (scenario, individual) cells of the grid
Cells == IF args.iterations > 0 THEN args.iterations * args.num_people ELSE 0

\* np.full((iterations, num_people), v), flattened
Full(v) == [k \in 1..Cells |-> v]

\* row i of a flattened (iterations x num_people) array
Row(a, i) == [j \in 1..args.num_people |-> a[(i - 1) * args.num_people + j]]

-----------------------------------------------------------------------------
(* State machine *)

NoLocals ==
    /\ effluent_conc = <<>> /\ treated_conc = <<>> /\ dilution_sampled = <<>>
    /\ site_conc = <<>> /\ samples = <<>> /\ meal_sizes = <<>> /\ bafs = <<>>
    /\ doses_continuous = <<>> /\ doses_discrete = <<>> /\ p_infection = <<>>
    /\ infected = <<>> /\ ill = <<>> /\ total_infections_all = <<>>
    /\ total_illness_all = <<>> /\ results = <<>>

\* the functions are called on their own: main is not running
NoMain ==
    /\ sites_df = [columns |-> {}, rows |-> <<>>]
    /\ dilutions_df = [columns |-> {}, rows |-> <<>>]
    /\ quality_report = <<>>
    /\ main_pc = "none"
    /\ idx = 0
    /\ all_results = <<>>

Init ==
    /\ rng \in 0..(RngModulus - 1)
    /\ pc = "idle"
    /\ fn = ""
    /\ args = [iterations |-> 0, num_people |-> 1]
    /\ draws = 0
    /\ error = ""
    /\ NoLocals
    /\ NoMain

Finished == pc \in {"returned", "error"}

\* a fresh frame for a call made while no call is in progress
Enter(f, a, first) ==
    /\ pc = "idle"
    /\ fn' = f
    /\ args' = a
    /\ pc' = first
    /\ draws' = 0
    /\ error' = ""
    /\ effluent_conc' = <<>> /\ treated_conc' = <<>> /\ dilution_sampled' = <<>>
    /\ site_conc' = <<>> /\ samples' = <<>> /\ meal_sizes' = <<>> /\ bafs' = <<>>
    /\ doses_continuous' = <<>> /\ doses_discrete' = <<>> /\ p_infection' = <<>>
    /\ infected' = <<>> /\ ill' = <<>> /\ total_infections_all' = <<>>
    /\ total_illness_all' = <<>> /\ results' = <<>>
    /\ UNCHANGED rng

\* the exception leaves the function: no value is returned
Raise(e) ==
    /\ pc' = "error"
    /\ error' = e

\* a caller invokes run_shellfish_qmra_advanced
CallRun ==
    /\ \E a \in RunArgs : Enter("run_shellfish_qmra_advanced", a, "effluent")
    /\ UNCHANGED mainVars

\* steps 1 and 2: effluent concentrations, then WWTP treatment
SampleEffluent ==
    /\ pc = "effluent"
    /\ LET n == args.iterations
           x0 == args.effluent[1]
           x50 == args.effluent[2]
           x100 == args.effluent[3]
           count == IF n > 0 THEN n ELSE 0
           raises == IF args.use_hockey_stick
                     THEN HockeyStickRaises(x0, x50)
                     ELSE TriangularRaises(x0, x50, x100, n)
           conc == IF args.use_hockey_stick
                   THEN sample_hockey_stick_concentration(rng, n, x0, x50, x100,
                                                          PERCENTILE_BREAK)
                   ELSE Triangular(rng, n, x0, x50, x100)
       IN IF raises
          THEN /\ Raise(IF args.use_hockey_stick THEN "ZeroDivisionError"
                                                 ELSE "ValueError")
               /\ UNCHANGED <<rng, draws, effluent_conc, treated_conc>>
          ELSE /\ effluent_conc' = conc
               /\ treated_conc' =
                      [k \in 1..count |->
                          IF IsFinite(conc[k])
                          THEN conc[k] \div (10 ^ args.log_removal_wwtp)
                          ELSE conc[k]]
               /\ rng' = RngAdvance(rng, count)
               /\ draws' = draws + count
               /\ pc' = "dilution"
               /\ UNCHANGED error
    /\ UNCHANGED <<fn, args, dilution_sampled, site_conc, samples, meal_sizes,
                   bafs, doses_continuous, doses_discrete, p_infection, infected,
                   ill, total_infections_all, total_illness_all, results>>
    /\ UNCHANGED mainVars

\* the mode argument ignored: meal sizes always sampled
MealStep_AlwaysSampled(mode) == "meal_loop"

\* if mode == 'advanced': which branch of step 5 is taken
MealStep(mode) == IF mode = "advanced" THEN "meal_loop" ELSE "meal_fixed"

\* steps 3 and 4: dilution from the ECDF, then site concentration
SampleDilution ==
    /\ pc = "dilution"
    /\ LET n == args.iterations
       IN IF EcdfRaises(args.dilution_data, n)
          THEN /\ Raise("ValueError")
               /\ UNCHANGED <<rng, draws, dilution_sampled, site_conc>>
          ELSE LET dil == sample_ecdf(rng, args.dilution_data, n)
               IN /\ dilution_sampled' = dil
                  /\ site_conc' = [k \in 1..n |-> FDiv(treated_conc[k], dil[k])]
                  /\ rng' = RngAdvance(rng, n)
                  /\ draws' = draws + n
                  /\ pc' = MealStep(args.mode)
                  /\ UNCHANGED error
    /\ UNCHANGED <<fn, args, effluent_conc, treated_conc, samples, meal_sizes,
                   bafs, doses_continuous, doses_discrete, p_infection, infected,
                   ill, total_infections_all, total_illness_all, results>>
    /\ UNCHANGED mainVars

\* step 5, simple mode: fixed meal size and MHF for every cell
FixedMealAndBaf ==
    /\ pc = "meal_fixed"
    /\ meal_sizes' = Full(args.meal_size_fixed)
    /\ bafs' = Full(args.mhf_fixed)
    /\ pc' = "dose"
    /\ UNCHANGED <<rng, fn, args, draws, error, effluent_conc, treated_conc,
                   dilution_sampled, site_conc, samples, doses_continuous,
                   doses_discrete, p_infection, infected, ill,
                   total_infections_all, total_illness_all, results>>
    /\ UNCHANGED mainVars

\* the loop left one accepted value short of n_samples
KeepDrawing_OneShort(accepted, n_samples) == Len(accepted) + 1 < n_samples

\* while len(samples) < n_samples: the only exit of the loop
KeepDrawing(accepted, n_samples) == Len(accepted) < n_samples

\* a[:n]
Take(a, n) == SubSeq(a, 1, IF n < Len(a) THEN n ELSE Len(a))

\* step 5, advanced mode: one turn of the loop of sample_meal_size_loglogistic
MealDraw ==
    /\ pc = "meal_loop"
    /\ KeepDrawing(samples, Cells)
    /\ LET sample == FiskRvs(rng)
       IN samples' = IF MealAccepted(sample) THEN Append(samples, sample)
                                             ELSE samples
    /\ rng' = RngNext(rng)
    /\ draws' = draws + 1
    /\ UNCHANGED <<pc, fn, args, error, effluent_conc, treated_conc,
                   dilution_sampled, site_conc, meal_sizes, bafs,
                   doses_continuous, doses_discrete, p_infection, infected, ill,
                   total_infections_all, total_illness_all, results>>
    /\ UNCHANGED mainVars

\* step 5, advanced mode: the sampler returns samples[:n_samples], which
\* reshape(iterations, num_people) takes only when it has that many values;
\* then BAF is drawn or fixed
MealReturn ==
    /\ pc = "meal_loop"
    /\ ~KeepDrawing(samples, Cells)
    /\ LET returned == Take(samples, Cells)
       IN IF Len(returned) # Cells
          THEN /\ Raise("ValueError")
               /\ UNCHANGED <<rng, draws, meal_sizes, bafs>>
          ELSE /\ meal_sizes' = returned
               /\ IF args.use_variable_baf
                  THEN /\ bafs' = sample_baf(rng, Cells)
                       /\ rng' = RngAdvance(rng, Cells)
                       /\ draws' = draws + Cells
                  ELSE /\ bafs' = Full(args.mhf_fixed)
                       /\ UNCHANGED <<rng, draws>>
               /\ pc' = "dose"
               /\ UNCHANGED error
    /\ UNCHANGED <<fn, args, effluent_conc, treated_conc,
                   dilution_sampled, site_conc, samples, doses_continuous,
                   doses_discrete, p_infection, infected, ill,
                   total_infections_all, total_illness_all, results>>
    /\ UNCHANGED mainVars

\* every cell takes the concentration of the first scenario
ScenarioOf_First(k, n) == 1

\* site_conc[:, np.newaxis]: cell k of the flattened grid of n people per
\* scenario takes the concentration of its own scenario (row)
ScenarioOf(k, n) == (k - 1) \div n + 1

\* steps 6 and 7: continuous dose for every cell, then discretize_dose, whose
\* np.random.binomial raises before drawing when a fractional part is invalid
DoseAndDiscretize ==
    /\ pc = "dose"
    /\ LET n == args.num_people
           dose == [k \in 1..Cells |->
                       FMul(FMul(site_conc[ScenarioOf(k, n)], meal_sizes[k] \div 1000),
                            bafs[k])]
       IN /\ doses_continuous' = dose
          /\ IF Discretizable(dose)
             THEN /\ doses_discrete' =
                         [k \in 1..Cells |-> discretize_dose(dose[k], RawAt(rng, k))]
                  /\ rng' = RngAdvance(rng, Cells)
                  /\ draws' = draws + Cells
                  /\ pc' = "infection"
                  /\ UNCHANGED error
             ELSE /\ Raise("ValueError")
                  /\ UNCHANGED <<rng, draws, doses_discrete>>
    /\ UNCHANGED <<fn, args, effluent_conc, treated_conc, dilution_sampled,
                   site_conc, samples, meal_sizes, bafs, p_infection, infected,
                   ill, total_infections_all, total_illness_all, results>>
    /\ UNCHANGED mainVars

\* steps 8 and 9: infection probability, then one Bernoulli draw per cell
Infect ==
    /\ pc = "infection"
    /\ \E fperr \in RoundingErrors :
          LET p == [k \in 1..Cells |->
                       beta_binomial_infection_prob(doses_discrete[k], fperr)]
          IN /\ p_infection' = p
             /\ IF \A k \in 1..Cells : ValidProbability(p[k])
                THEN /\ infected' = [k \in 1..Cells |-> Bernoulli(RawAt(rng, k), p[k])]
                     /\ rng' = RngAdvance(rng, Cells)
                     /\ draws' = draws + Cells
                     /\ pc' = "illness"
                     /\ UNCHANGED error
                ELSE /\ Raise("ValueError")
                     /\ UNCHANGED <<rng, draws, infected>>
    /\ UNCHANGED <<fn, args, effluent_conc, treated_conc, dilution_sampled,
                   site_conc, samples, meal_sizes, bafs, doses_continuous,
                   doses_discrete, ill, total_infections_all, total_illness_all,
                   results>>
    /\ UNCHANGED mainVars

\* number of infected cells among the first k
RECURSIVE InfectedUpTo(_, _)
InfectedUpTo(inf, k) == IF k = 0 THEN 0 ELSE inf[k] + InfectedUpTo(inf, k - 1)

\* an illness draw for every cell, infected or not
IllnessOutcomes_Unmasked(s, inf) ==
    [k \in 1..Len(inf) |-> Bernoulli(RawAt(s, k), PR_ILLNESS_GIVEN_INFECTION)]

\* ill = np.zeros_like(infected); ill[infected == 1] = np.random.binomial(
\*     1, PR_ILLNESS_GIVEN_INFECTION, size=np.sum(infected))
IllnessOutcomes(s, inf) ==
    [k \in 1..Len(inf) |->
        IF inf[k] = 1
        THEN Bernoulli(RawAt(s, InfectedUpTo(inf, k)), PR_ILLNESS_GIVEN_INFECTION)
        ELSE 0]

\* the sum taken over scenarios (axis=0) instead of over people
SumOverPeople_Axis0(a) ==
    [j \in 1..args.num_people |->
        SeqSum([i \in 1..(Len(a) \div args.num_people) |->
                   a[(i - 1) * args.num_people + j]])]

\* np.sum(a, axis=1) of a flattened (iterations x num_people) array
SumOverPeople(a) == [i \in 1..(Len(a) \div args.num_people) |-> SeqSum(Row(a, i))]

\* steps 10 and 11: illness among the infected, then the per-scenario totals
IllnessAndTotals ==
    /\ pc = "illness"
    /\ LET outcome == IllnessOutcomes(rng, infected)
       IN /\ ill' = outcome
          /\ total_infections_all' = SumOverPeople(infected)
          /\ total_illness_all' = SumOverPeople(outcome)
    /\ rng' = RngAdvance(rng, SeqSum(infected))
    /\ draws' = draws + SeqSum(infected)
    /\ pc' = "statistics"
    /\ UNCHANGED <<fn, args, error, effluent_conc, treated_conc, dilution_sampled,
                   site_conc, samples, meal_sizes, bafs, doses_continuous,
                   doses_discrete, p_infection, infected, results>>
    /\ UNCHANGED mainVars

SeqMin(a) == CHOOSE x \in {a[k] : k \in 1..Len(a)} : \A k \in 1..Len(a) : x <= a[k]
SeqMax(a) == CHOOSE x \in {a[k] : k \in 1..Len(a)} : \A k \in 1..Len(a) : x >= a[k]

RECURSIVE Insert(_, _)
Insert(x, sorted) ==
    IF Len(sorted) = 0 THEN <<x>>
    ELSE IF x <= Head(sorted) THEN <<x>> \o sorted
    ELSE <<Head(sorted)>> \o Insert(x, Tail(sorted))

RECURSIVE Ascending(_)
Ascending(a) == IF Len(a) = 0 THEN <<>> ELSE Insert(Head(a), Ascending(Tail(a)))

HasNaN(a) == \E k \in 1..Len(a) : IsNaN(a[k])

\* an integer array as floats
ToFloat(a) == [k \in 1..Len(a) |-> a[k] * FP]

\* the mean of the values that are present (np.nanmean)
NpMean_SkipMissing(a) ==
    LET present == RemoveNaN(a)
    IN IF Len(present) = 0 THEN NaN ELSE SeqSum(present) \div Len(present)

\* np.mean of a non-empty float array: nan when an element is nan
NpMean(a) == IF HasNaN(a) THEN NaN ELSE SeqSum(a) \div Len(a)

\* the percentile taken as q percent of the largest value
NpPercentile_OfMaximum(a, q) == (SeqMax(a) * q) \div 100

\* np.percentile(a, q) of a non-empty float array: linear interpolation
\* between the order statistics around position (n - 1) * q / 100
NpPercentile(a, q) ==
    IF HasNaN(a) THEN NaN
    ELSE LET sorted == Ascending(a)
             pos == (Len(a) - 1) * q
             lo == pos \div 100 + 1
             part == pos % 100
         IN IF part = 0 THEN sorted[lo]
            ELSE sorted[lo] + ((sorted[lo + 1] - sorted[lo]) * part) \div 100

\* np.median(a)
NpMedian(a) == NpPercentile(a, 50)

\* the mean or median count reported without dividing by the population
RiskPerPerson_Undivided(count, num_people) == count

\* np.mean(total_infections_all) / num_people, likewise for the median
RiskPerPerson(count, num_people) == count \div num_people

\* the results dictionary; np.min of an empty array raises ValueError
SiteResult ==
    LET infections == ToFloat(total_infections_all)
        illness == ToFloat(total_illness_all)
    IN [site_name |-> args.site_name,
        dilution_mean |-> NpMean(args.dilution_data),
        dilution_median |-> NpMedian(args.dilution_data),
        mode |-> args.mode,
        num_people |-> args.num_people,
        iterations |-> args.iterations,
        infections_mean |-> NpMean(infections),
        infections_median |-> NpMedian(infections),
        infections_5th |-> NpPercentile(infections, 5),
        infections_95th |-> NpPercentile(infections, 95),
        infections_min |-> SeqMin(total_infections_all),
        infections_max |-> SeqMax(total_infections_all),
        infections_distribution |-> total_infections_all,
        illness_mean |-> NpMean(illness),
        illness_median |-> NpMedian(illness),
        illness_5th |-> NpPercentile(illness, 5),
        illness_95th |-> NpPercentile(illness, 95),
        illness_min |-> SeqMin(total_illness_all),
        illness_max |-> SeqMax(total_illness_all),
        illness_distribution |-> total_illness_all,
        risk_per_person_mean |-> RiskPerPerson(NpMean(infections), args.num_people),
        risk_per_person_median |->
            RiskPerPerson(NpMedian(infections), args.num_people)]

Return ==
    /\ pc = "statistics"
    /\ IF Len(total_infections_all) = 0
       THEN /\ Raise("ValueError")
            /\ UNCHANGED results
       ELSE /\ results' = <<SiteResult>>
            /\ pc' = "returned"
            /\ UNCHANGED error
    /\ UNCHANGED <<rng, fn, args, draws, effluent_conc, treated_conc,
                   dilution_sampled, site_conc, samples, meal_sizes, bafs,
                   doses_continuous, doses_discrete, p_infection, infected, ill,
                   total_infections_all, total_illness_all>>
    /\ UNCHANGED mainVars

\* a caller invokes beta_binomial_infection_prob on a dose vector
CallBetaBinomial ==
    /\ \E d \in DoseVectors :
          Enter("beta_binomial_infection_prob", [dose |-> d], "dose_response")
    /\ UNCHANGED mainVars

BetaBinomialReturn ==
    /\ pc = "dose_response"
    /\ \E fperr \in RoundingErrors :
          p_infection' = [k \in 1..Len(args.dose) |->
                             beta_binomial_infection_prob(args.dose[k], fperr)]
    /\ pc' = "returned"
    /\ UNCHANGED <<rng, fn, args, draws, error, effluent_conc, treated_conc,
                   dilution_sampled, site_conc, samples, meal_sizes, bafs,
                   doses_continuous, doses_discrete, infected, ill,
                   total_infections_all, total_illness_all, results>>
    /\ UNCHANGED mainVars

\* a caller invokes discretize_dose on one continuous dose
CallDiscretize ==
    /\ \E d \in ContinuousDoseInputs :
          Enter("discretize_dose", [dose |-> d], "discretize")
    /\ UNCHANGED mainVars

\* np.random.binomial raises before drawing when the fractional part is invalid
DiscretizeReturn ==
    /\ pc = "discretize"
    /\ doses_continuous' = <<args.dose>>
    /\ IF Discretizable(<<args.dose>>)
       THEN /\ doses_discrete' = <<discretize_dose(args.dose, rng)>>
            /\ rng' = RngNext(rng)
            /\ draws' = draws + 1
            /\ pc' = "returned"
            /\ UNCHANGED error
       ELSE /\ Raise("ValueError")
            /\ UNCHANGED <<rng, draws, doses_discrete>>
    /\ UNCHANGED <<fn, args, effluent_conc, treated_conc, dilution_sampled,
                   site_conc, samples, meal_sizes, bafs, p_infection, infected,
                   ill, total_infections_all, total_illness_all, results>>
    /\ UNCHANGED mainVars

\* a caller invokes sample_hockey_stick_concentration
CallHockeyStick ==
    /\ \E a \in HockeyStickArgs :
          Enter("sample_hockey_stick_concentration", a, "hockey_stick")
    /\ UNCHANGED mainVars

HockeyStickReturn ==
    /\ pc = "hockey_stick"
    /\ IF HockeyStickRaises(args.range[1], args.range[2])
       THEN /\ Raise("ZeroDivisionError")
            /\ UNCHANGED <<rng, draws, effluent_conc>>
       ELSE /\ effluent_conc' =
                   sample_hockey_stick_concentration(
                       rng, args.n_samples, args.range[1], args.range[2],
                       args.range[3], args.percentile_break)
            /\ rng' = RngAdvance(rng, args.n_samples)
            /\ draws' = draws + args.n_samples
            /\ pc' = "returned"
            /\ UNCHANGED error
    /\ UNCHANGED <<fn, args, treated_conc, dilution_sampled, site_conc, samples,
                   meal_sizes, bafs, doses_continuous, doses_discrete,
                   p_infection, infected, ill, total_infections_all,
                   total_illness_all, results>>
    /\ UNCHANGED mainVars

\* the frame of the call is discarded and only the generator keeps its state
Discard ==
    /\ pc' = "idle"
    /\ fn' = ""
    /\ args' = [iterations |-> 0, num_people |-> 1]
    /\ draws' = 0
    /\ error' = ""
    /\ effluent_conc' = <<>> /\ treated_conc' = <<>> /\ dilution_sampled' = <<>>
    /\ site_conc' = <<>> /\ samples' = <<>> /\ meal_sizes' = <<>> /\ bafs' = <<>>
    /\ doses_continuous' = <<>> /\ doses_discrete' = <<>> /\ p_infection' = <<>>
    /\ infected' = <<>> /\ ill' = <<>> /\ total_infections_all' = <<>>
    /\ total_illness_all' = <<>> /\ results' = <<>>
    /\ UNCHANGED rng

\* control is back at a caller that is not main
Resume ==
    /\ Finished
    /\ Discard
    /\ UNCHANGED mainVars

Next ==
    \/ CallRun
    \/ SampleEffluent
    \/ SampleDilution
    \/ FixedMealAndBaf
    \/ MealDraw
    \/ MealReturn
    \/ DoseAndDiscretize
    \/ Infect
    \/ IllnessAndTotals
    \/ Return
    \/ CallBetaBinomial
    \/ BetaBinomialReturn
    \/ CallDiscretize
    \/ DiscretizeReturn
    \/ CallHockeyStick
    \/ HockeyStickReturn
    \/ Resume

Spec == Init /\ [][Next]_vars

\* the interpreter keeps executing a call in progress: the loop of
\* sample_meal_size_loglogistic takes its next turn, and returns once its
\* condition is false
FairSpec == Spec /\ WF_vars(MealDraw) /\ WF_vars(MealReturn)

-----------------------------------------------------------------------------
(* main: the uploaded tables, check_data_quality and the run loop *)

\* the analysis options main fixes before it loads the tables
use_variable_meal == TRUE
use_variable_baf == FALSE
use_hockey_stick == TRUE

\* an empty Site_Name cell, which read_csv turns into a missing value
MissingName == ""

RequiredSitesCols ==
    {"Site_Name", "Effluent_Min", "Effluent_Median", "Effluent_Max",
     "WWTP_Log_Removal", "Meal_Size_g", "Num_People", "Iterations"}
RequiredDilutionsCols == {"Site_Name", "Dilution_Value"}
NumericCols == RequiredSitesCols \ {"Site_Name"}

SiteRow(name, effluent) ==
    [Site_Name |-> name,
     Effluent_Min |-> effluent[1],
     Effluent_Median |-> effluent[2],
     Effluent_Max |-> effluent[3],
     WWTP_Log_Removal |-> 1,
     Meal_Size_g |-> 50000,
     Num_People |-> 1,
     Iterations |-> 1]

\* rows of sites.csv: two sites with a valid range, one whose maximum is
\* infinite (the order and sign checks accept it), one with a zero minimum
SiteRows ==
    {SiteRow("Site A", ValidRange), SiteRow("Site B", ValidRange),
     SiteRow("Site B", <<10000, 20000, PosInf>>),
     SiteRow("Site A", <<0, 20000, 40000>>)}

\* rows of dilutions.csv: measurements of the two sites and of a site that
\* sites.csv does not have, and a missing measurement
DilutionRows ==
    {[Site_Name |-> "Site A", Dilution_Value |-> 2000],
     [Site_Name |-> "Site B", Dilution_Value |-> 4000],
     [Site_Name |-> "Site C", Dilution_Value |-> 2000],
     [Site_Name |-> "Site A", Dilution_Value |-> NaN]}

\* the uploads: tables with all their columns and any rows, and tables that
\* lack a required column
Uploads ==
    ([columns : {RequiredSitesCols}, rows : SeqsUpTo(SiteRows, MaxSites)]
         \X [columns : {RequiredDilutionsCols},
             rows : SeqsUpTo(DilutionRows, MaxDilutions)])
    \cup {<<[columns |-> RequiredSitesCols \ {"Iterations"},
            rows |-> <<SiteRow("Site A", ValidRange)>>],
           [columns |-> RequiredDilutionsCols,
            rows |-> <<[Site_Name |-> "Site A", Dilution_Value |-> 2000]>>]>>,
          <<[columns |-> RequiredSitesCols,
            rows |-> <<SiteRow("Site A", ValidRange)>>],
           [columns |-> {"Site_Name"},
            rows |-> <<[Site_Name |-> "Site A", Dilution_Value |-> 2000]>>]>>}

\* a list of messages is kept as the set of its messages <<text, subject>>
Msg(cond, text, subject) == IF cond THEN {<<text, subject>>} ELSE {}

\* the rows of a table, for (condition on a column).any()
Rows(df) == {df.rows[k] : k \in 1..Len(df.rows)}

\* comparisons of a column with a number: false on a missing value
Leq(x, c) == ~IsNaN(x) /\ x <= c
Less(x, c) == ~IsNaN(x) /\ x < c
Greater(x, c) == ~IsNaN(x) /\ x > c
Geq(x, y) == ~IsNaN(x) /\ ~IsNaN(y) /\ x >= y

\* set(df['Site_Name'].unique())
Names(rows) == {rows[k].Site_Name : k \in 1..Len(rows)}

\* df[df['Site_Name'] == site]['Dilution_Value'].values
DilutionsOf(rows, site) ==
    LET matching == SelectSeq(rows, LAMBDA r : r.Site_Name = site)
    IN [k \in 1..Len(matching) |-> matching[k].Dilution_Value]

\* dilutions_df.groupby('Site_Name').size(): rows without a name are dropped
DilutionCount(rows, site) ==
    IF site = MissingName THEN 0 ELSE Len(DilutionsOf(rows, site))

\* 1. file structure: the required columns
ColumnErrors(sites, dilutions) ==
    Msg(~(RequiredSitesCols \subseteq sites.columns),
        "Missing required columns", "sites.csv")
    \cup Msg(~(RequiredDilutionsCols \subseteq dilutions.columns),
             "Missing required columns", "dilutions.csv")

\* 2. missing data and empty tables
MissingDataErrors(sites, dilutions) ==
    UNION {Msg((\E r \in Rows(sites) : IsNaN(r[col])), "missing value(s)", col) :
               col \in NumericCols}
    \cup Msg((\E r \in Rows(sites) : r.Site_Name = MissingName),
             "missing value(s)", "Site_Name")
    \cup Msg((\E r \in Rows(dilutions) : r.Site_Name = MissingName),
             "Missing site names", "dilutions.csv")
    \cup Msg((\E r \in Rows(dilutions) : IsNaN(r.Dilution_Value)),
             "missing dilution value(s)", "dilutions.csv")
    \cup Msg(Len(sites.rows) = 0, "contains no data rows", "sites.csv")
    \cup Msg(Len(dilutions.rows) = 0, "contains no data rows", "dilutions.csv")

\* 4. ranges (3., the numeric types: every cell of the tables here is a
\* number, and every count a whole number)
RangeErrors(sites, dilutions) ==
    UNION {Msg((\E r \in Rows(sites) : Leq(r[col], 0)), "must be positive", col) :
               col \in {"Effluent_Min", "Effluent_Median", "Effluent_Max",
                        "Meal_Size_g", "Num_People", "Iterations"}}
    \cup Msg((\E r \in Rows(sites) : Less(r.WWTP_Log_Removal, 0)),
             "cannot be negative", "WWTP_Log_Removal")
    \cup Msg((\E r \in Rows(dilutions) : Leq(r.Dilution_Value, 0)),
             "must be positive", "Dilution_Value")

RangeWarnings(sites, dilutions) ==
    Msg((\E r \in Rows(sites) : Greater(r.WWTP_Log_Removal, 10)),
        "unusually high", "WWTP_Log_Removal")
    \cup Msg((\E r \in Rows(sites) : Greater(r.Meal_Size_g, 1000 * FP)),
             "unusually large", "Meal_Size_g")
    \cup Msg((\E r \in Rows(sites) : Less(r.Iterations, 100)),
             "may produce unreliable statistics", "Iterations")
    \cup Msg((\E r \in Rows(dilutions) : Greater(r.Dilution_Value, 100000 * FP)),
             "unusually high", "Dilution_Value")

RangeInfo(sites) ==
    Msg((\E r \in Rows(sites) : Less(r.Iterations, 1000)),
        "recommend Iterations >= 10,000", "Iterations")

\* 5. Effluent_Min < Effluent_Median < Effluent_Max
OrderErrors(sites) ==
    Msg((\E r \in Rows(sites) : \/ Geq(r.Effluent_Min, r.Effluent_Median)
                                   \/ Geq(r.Effluent_Median, r.Effluent_Max)),
        "must satisfy Min < Median < Max", "sites.csv")

\* no site is ever reported as missing from dilutions.csv
MissingDilutionData_Unchecked(sites, dilutions) == {}

\* 6. sites_in_sites_csv - sites_in_dilutions_csv
MissingDilutionData(sites, dilutions) == Names(sites.rows) \ Names(dilutions.rows)

MatchingErrors(sites, dilutions) ==
    Msg(MissingDilutionData(sites, dilutions) # {},
        "Sites in sites.csv missing from dilutions.csv", "sites.csv")

MatchingWarnings(sites, dilutions) ==
    Msg(Names(dilutions.rows) \ Names(sites.rows) # {},
        "Sites in dilutions.csv not found in sites.csv", "dilutions.csv")

\* 7. number of measurements of each site that has some
AdequacyWarnings(sites, dilutions) ==
    UNION {Msg(LET count == DilutionCount(dilutions.rows, site)
               IN count > 0 /\ count < 5,
               "has only few dilution measurement(s)", site) :
               site \in Names(sites.rows)}

AdequacyInfo(sites, dilutions) ==
    UNION {Msg(LET count == DilutionCount(dilutions.rows, site)
               IN count >= 5 /\ count < 10,
               "recommend >= 20 for robust ECDF", site) :
               site \in Names(sites.rows)}

\* 8. sites_df.duplicated('Site_Name', keep=False)
DuplicateErrors(sites) ==
    Msg(\E site \in Names(sites.rows) :
            Len(SelectSeq(sites.rows, LAMBDA r : r.Site_Name = site)) > 1,
        "Duplicate site names", "sites.csv")

\* 9. len(site_dilutions) > 1 and site_dilutions.nunique() == 1
AnomalyWarnings(sites, dilutions) ==
    UNION {Msg(LET site_dilutions == DilutionsOf(dilutions.rows, site)
                   present == RemoveNaN(site_dilutions)
               IN /\ Len(site_dilutions) > 1
                  /\ Cardinality({present[k] : k \in 1..Len(present)}) = 1,
               "has identical dilution values", site) :
               site \in Names(sites.rows)}

\* 9. values more than 3 IQR outside the quartiles, which Series.quantile
\* takes over the values that are present
Outliers(site_dilutions) ==
    LET present == RemoveNaN(site_dilutions)
        Q1 == NpPercentile(present, 25)
        Q3 == NpPercentile(present, 75)
        IQR == Q3 - Q1
    IN IF Len(present) = 0 THEN <<>>
       ELSE SelectSeq(present, LAMBDA x : x < Q1 - 3 * IQR \/ x > Q3 + 3 * IQR)

AnomalyInfo(sites, dilutions) ==
    UNION {Msg(LET site_dilutions == DilutionsOf(dilutions.rows, site)
               IN Len(site_dilutions) >= 4 /\ Len(Outliers(site_dilutions)) > 0,
               "has extreme outlier(s)", site) :
               site \in Names(sites.rows)}

\* the report never passes
Passed_Never(errors) == FALSE

\* passed = len(errors) == 0
Passed(errors) == errors = {}

\* check_data_quality: returns at once when a required column is missing,
\* otherwise collects every message and passes when no error was collected
check_data_quality(sites, dilutions) ==
    IF ColumnErrors(sites, dilutions) # {}
    THEN [passed |-> FALSE,
          errors |-> ColumnErrors(sites, dilutions),
          warnings |-> {},
          info |-> {},
          summary |-> <<>>]
    ELSE LET errors == MissingDataErrors(sites, dilutions)
                           \cup RangeErrors(sites, dilutions)
                           \cup OrderErrors(sites)
                           \cup MatchingErrors(sites, dilutions)
                           \cup DuplicateErrors(sites)
             warnings == RangeWarnings(sites, dilutions)
                             \cup MatchingWarnings(sites, dilutions)
                             \cup AdequacyWarnings(sites, dilutions)
                             \cup AnomalyWarnings(sites, dilutions)
             info == RangeInfo(sites)
                         \cup AdequacyInfo(sites, dilutions)
                         \cup AnomalyInfo(sites, dilutions)
         IN [passed |-> Passed(errors),
             errors |-> errors,
             warnings |-> warnings,
             info |-> info,
             summary |-> [num_sites |-> Cardinality(Names(sites.rows)),
                          total_dilution_measurements |-> Len(dilutions.rows)]]

\* the state of the current call and of the generator
callVars == <<rng, pc, fn, args, draws, error, effluent_conc, treated_conc,
              dilution_sampled, site_conc, samples, meal_sizes, bafs,
              doses_continuous, doses_discrete, p_infection, infected, ill,
              total_infections_all, total_illness_all, results>>

\* both tables are loaded and nothing else has happened yet
MainInit ==
    /\ rng \in 0..(RngModulus - 1)
    /\ pc = "idle"
    /\ fn = ""
    /\ args = [iterations |-> 0, num_people |-> 1]
    /\ draws = 0
    /\ error = ""
    /\ NoLocals
    /\ \E upload \in Uploads : sites_df = upload[1] /\ dilutions_df = upload[2]
    /\ quality_report = <<>>
    /\ main_pc = "loaded"
    /\ idx = 0
    /\ all_results = <<>>

\* quality_report = check_data_quality(sites_df, dilutions_df)
CheckQuality ==
    /\ main_pc = "loaded"
    /\ quality_report' = <<check_data_quality(sites_df, dilutions_df)>>
    /\ main_pc' = "checked"
    /\ UNCHANGED <<sites_df, dilutions_df, idx, all_results>>
    /\ UNCHANGED callVars

\* if not quality_report['passed']: st.stop(); otherwise the button is shown
QualityGate ==
    /\ main_pc = "checked"
    /\ main_pc' = IF ~quality_report[1].passed THEN "stopped" ELSE "ready"
    /\ UNCHANGED <<sites_df, dilutions_df, quality_report, idx, all_results>>
    /\ UNCHANGED callVars

\* the button is pressed: all_results = [] and the loop begins at the first row
ClickRun ==
    /\ main_pc = "ready"
    /\ all_results' = <<>>
    /\ idx' = 1
    /\ main_pc' = "loop"
    /\ UNCHANGED <<sites_df, dilutions_df, quality_report>>
    /\ UNCHANGED callVars

\* the rows visited last to first
Iterrows_Reversed(df, i) == df.rows[Len(df.rows) + 1 - i]

\* for idx, row in sites_df.iterrows(): the i-th row visited
Iterrows(df, i) == df.rows[i]

\* the arguments main passes for a row and its dilution data
ArgsOfRow(row, dilution_data) ==
    [site_name |-> row.Site_Name,
     dilution_data |-> dilution_data,
     effluent |-> <<row.Effluent_Min, row.Effluent_Median, row.Effluent_Max>>,
     log_removal_wwtp |-> row.WWTP_Log_Removal,
     num_people |-> row.Num_People,
     iterations |-> row.Iterations,
     mode |-> IF use_variable_meal THEN "advanced" ELSE "simple",
     meal_size_fixed |-> row.Meal_Size_g,
     mhf_fixed |-> MHF_MEAN,
     use_hockey_stick |-> use_hockey_stick,
     use_variable_baf |-> use_variable_baf]

\* one turn of the loop up to the call: a site without dilution data is
\* skipped with a warning, any other is run
NextSite ==
    /\ main_pc = "loop"
    /\ pc = "idle"
    /\ idx <= Len(sites_df.rows)
    /\ LET row == Iterrows(sites_df, idx)
           site_dilutions == DilutionsOf(dilutions_df.rows, row.Site_Name)
       IN IF Len(site_dilutions) = 0
          THEN /\ idx' = idx + 1
               /\ UNCHANGED <<sites_df, dilutions_df, quality_report, main_pc,
                              all_results>>
               /\ UNCHANGED callVars
          ELSE /\ Enter("run_shellfish_qmra_advanced",
                        ArgsOfRow(row, site_dilutions), "effluent")
               /\ UNCHANGED mainVars

\* all_results.append(results), and on to the next row
AppendResult ==
    /\ main_pc = "loop"
    /\ fn = "run_shellfish_qmra_advanced"
    /\ pc = "returned"
    /\ all_results' = Append(all_results, results[1])
    /\ idx' = idx + 1
    /\ Discard
    /\ UNCHANGED <<sites_df, dilutions_df, quality_report, main_pc>>

\* nothing in main catches an exception of the run: the script ends there
RunRaises ==
    /\ main_pc = "loop"
    /\ pc = "error"
    /\ main_pc' = "failed"
    /\ UNCHANGED <<sites_df, dilutions_df, quality_report, idx, all_results>>
    /\ UNCHANGED callVars

\* the loop has visited every row
LoopDone ==
    /\ main_pc = "loop"
    /\ pc = "idle"
    /\ idx > Len(sites_df.rows)
    /\ main_pc' = "complete"
    /\ UNCHANGED <<sites_df, dilutions_df, quality_report, idx, all_results>>
    /\ UNCHANGED callVars

MainNext ==
    \/ CheckQuality
    \/ QualityGate
    \/ ClickRun
    \/ NextSite
    \/ SampleEffluent
    \/ SampleDilution
    \/ MealDraw
    \/ MealReturn
    \/ DoseAndDiscretize
    \/ Infect
    \/ IllnessAndTotals
    \/ Return
    \/ AppendResult
    \/ RunRaises
    \/ LoopDone

MainSpec == MainInit /\ [][MainNext]_vars

-----------------------------------------------------------------------------
(* Properties *)

InRun == fn = "run_shellfish_qmra_advanced"
InDoseResponse == fn = "beta_binomial_infection_prob"
Returned == pc = "returned"

\* C1: in a run, an individual is ill only if that individual is infected, so
\* each scenario's illness count is at most its infection count and is 0 when
\* the infection count is 0, in the totals and in the returned Site Result.
C1_IllOnlyIfInfected ==
    InRun =>
        /\ \A k \in 1..Len(ill) : ill[k] = 1 => infected[k] = 1
        /\ \A i \in 1..Len(total_illness_all) :
              /\ total_illness_all[i] <= total_infections_all[i]
              /\ total_infections_all[i] = 0 => total_illness_all[i] = 0
        /\ Returned =>
              \A i \in 1..Len(results[1].illness_distribution) :
                  /\ results[1].illness_distribution[i]
                        <= results[1].infections_distribution[i]
                  /\ results[1].infections_distribution[i] = 0
                        => results[1].illness_distribution[i] = 0

\* a returned result with an individual infected and ill, one infected and
\* not ill, and one not infected
C1_Witness ==
    /\ InRun /\ Returned
    /\ \E k \in 1..Len(infected) : infected[k] = 1 /\ ill[k] = 1
    /\ \E k \in 1..Len(infected) : infected[k] = 1 /\ ill[k] = 0
    /\ \E k \in 1..Len(infected) : infected[k] = 0
    /\ \E i \in 1..args.iterations : results[1].illness_distribution[i] > 0

\* C2: for every dose d >= 0, beta_binomial_infection_prob returns a
\* probability p with 0 <= p <= 1, called directly or from a run.
C2_ProbabilityInUnitInterval ==
    /\ (InDoseResponse /\ Returned) =>
          \A k \in 1..Len(args.dose) :
              (~IsNaN(args.dose[k]) /\ args.dose[k] >= 0)
                  => (p_infection[k] >= 0 /\ p_infection[k] <= FP)
    /\ InRun => \A k \in 1..Len(p_infection) :
                    p_infection[k] >= 0 /\ p_infection[k] <= FP

\* C3: a run that returns (iterations >= 1, num_people >= 1) gives
\* infections_distribution and illness_distribution exactly `iterations`
\* entries each, every entry an integer count between 0 and num_people.
C3_DistributionLengths ==
    (InRun /\ Returned) =>
        /\ Len(results[1].infections_distribution) = args.iterations
        /\ Len(results[1].illness_distribution) = args.iterations
        /\ \A i \in 1..args.iterations :
              /\ results[1].infections_distribution[i] \in 0..args.num_people
              /\ results[1].illness_distribution[i] \in 0..args.num_people

\* a returned result of more scenarios than people, with an infection
C3_Witness ==
    /\ InRun /\ Returned
    /\ args.iterations = MaxIterations /\ args.num_people = 1
    /\ args.mode = "advanced" /\ args.use_variable_baf
    /\ \E i \in 1..args.iterations : results[1].infections_distribution[i] > 0

\* C4: every value sample_ecdf returns is one of the observations it was
\* given and is not a missing value, and it returns n values.
C4_EcdfSamplesAreObservations ==
    InRun =>
        /\ \A k \in 1..Len(dilution_sampled) :
              /\ ~IsNaN(dilution_sampled[k])
              /\ \E j \in 1..Len(args.dilution_data) :
                    args.dilution_data[j] = dilution_sampled[k]
        /\ Len(dilution_sampled) \in {0, args.iterations}

\* samples drawn from observations that hold a missing value
C4_Witness ==
    /\ InRun
    /\ Len(dilution_sampled) = MaxIterations
    /\ \E j \in 1..Len(args.dilution_data) : IsNaN(args.dilution_data[j])
    /\ \E j \in 1..Len(args.dilution_data) : ~IsNaN(args.dilution_data[j])

AllMissing(data) == \A k \in 1..Len(data) : IsNaN(data[k])

\* C5: when the observations are empty or all missing, sample_ecdf raises
\* ValueError and returns no samples, for every n including n = 0.
C5_EcdfRaisesOnNoData ==
    [][(InRun /\ pc = "dilution" /\ AllMissing(args.dilution_data))
          => (pc' = "error" /\ error' = "ValueError" /\ dilution_sampled' = <<>>)]_vars

\* the error raised for n = 0 on observations that are all missing
C5_Witness ==
    /\ InRun /\ pc = "error" /\ error = "ValueError"
    /\ args.iterations = 0
    /\ Len(args.dilution_data) > 0 /\ AllMissing(args.dilution_data)
    /\ effluent_conc = <<>> /\ dilution_sampled = <<>>

\* C6: when the dilution sample set is empty after removing missing values,
\* the run fails before any random draw has occurred.
C6_NoDrawBeforeDilutionError ==
    (InRun /\ pc = "error" /\ AllMissing(args.dilution_data)) => draws = 0

InvalidSiteConfiguration(a) ==
    \/ a.effluent[1] <= 0 \/ a.effluent[2] <= 0 \/ a.effluent[3] <= 0
    \/ a.effluent[1] >= a.effluent[2]
    \/ a.effluent[2] >= a.effluent[3]
    \/ a.iterations <= 0

\* C7: a run invoked with an invalid site configuration (a non-positive
\* effluent bound, min >= median, median >= max, or iterations <= 0) never
\* returns a Site Result.
C7_InvalidConfigurationNeverReturns ==
    (InRun /\ InvalidSiteConfiguration(args)) => ~Returned

\* C8: a run whose dilution observations hold a missing or a non-positive
\* value never returns a Site Result.
C8_InvalidUpstreamValueNeverReturns ==
    (InRun /\ \E k \in 1..Len(args.dilution_data) :
                  IsNaN(args.dilution_data[k]) \/ args.dilution_data[k] <= 0)
        => ~Returned

\* C9: whatever the intermediate result is (below 0, above 1 or NaN), the
\* value beta_binomial_infection_prob returns lies in [0, 1] and is not NaN.
C9_ClampAbsorbsEveryValue ==
    (InDoseResponse /\ Returned) =>
        \A k \in 1..Len(p_infection) :
            ~IsNaN(p_infection[k]) /\ 0 <= p_infection[k] /\ p_infection[k] <= FP

\* C10: every sample sample_meal_size_loglogistic keeps or returns lies
\* between MEAL_SIZE_MIN and MEAL_SIZE_MAX.
C10_MealSizesWithinLimits ==
    (InRun /\ args.mode = "advanced") =>
        /\ \A k \in 1..Len(samples) :
              MEAL_SIZE_MIN <= samples[k] /\ samples[k] <= MEAL_SIZE_MAX
        /\ \A k \in 1..Len(meal_sizes) :
              MEAL_SIZE_MIN <= meal_sizes[k] /\ meal_sizes[k] <= MEAL_SIZE_MAX

\* the sampler has returned after rejecting a variate, and both limits
\* themselves were accepted
C10_Witness ==
    /\ InRun /\ args.mode = "advanced" /\ pc = "dose"
    /\ Len(meal_sizes) = Cells
    /\ draws - 2 * args.iterations - (IF args.use_variable_baf THEN Cells ELSE 0) > Cells
    /\ \E k \in 1..Cells : meal_sizes[k] = MEAL_SIZE_MIN
    /\ \E k \in 1..Cells : meal_sizes[k] = MEAL_SIZE_MAX

InDiscretize == fn = "discretize_dose"

\* C11: for every continuous dose d >= 0, discretize_dose returns a
\* non-negative integer that is floor(d) or floor(d) + 1, decided by exactly
\* one Bernoulli draw, and an integer-valued d is returned unchanged.
C11_DiscretizedIsFloorOrNext ==
    (InDiscretize /\ Finished /\ ~IsNaN(args.dose) /\ args.dose >= 0) =>
        /\ Returned
        /\ draws = 1
        /\ doses_discrete[1] >= 0
        /\ doses_discrete[1] \in {args.dose \div FP, args.dose \div FP + 1}
        /\ args.dose % FP = 0 => doses_discrete[1] = args.dose \div FP

\* C12: sample_baf(n) draws exactly n normal variates and returns n values,
\* each >= 1.0: a variate below 1.0 is replaced by 1.0 and not redrawn, and a
\* variate >= 1.0 is returned unchanged.
C12_BafClampedNotRedrawn ==
    [][(InRun /\ pc = "meal_loop" /\ pc' = "dose" /\ args.use_variable_baf) =>
          /\ Len(bafs') = Cells
          /\ draws' = draws + Cells
          /\ rng' = RngAdvance(rng, Cells)
          /\ \A k \in 1..Cells :
                LET variate == NormalRvs(RawAt(rng, k), BAF_MEAN, BAF_STD)
                IN /\ bafs'[k] >= FP
                   /\ variate < FP => bafs'[k] = FP
                   /\ variate >= FP => bafs'[k] = variate]_vars

\* BAFs returned by sample_baf, one of them clamped and one as drawn
C12_Witness ==
    /\ InRun /\ pc = "dose" /\ args.mode = "advanced" /\ args.use_variable_baf
    /\ Len(bafs) = Cells
    /\ \E k \in 1..Cells : bafs[k] = FP
    /\ \E k \in 1..Cells : bafs[k] > FP

InHockeyStick == fn = "sample_hockey_stick_concentration"

\* C13: for x0 < x50 < x100 and a breakpoint b, the three-branch map is
\* continuous at its segment boundaries: u = 0.5 maps to x50 from both sides,
\* and the middle and tail branches both give xp = x50 + (x100 - x50) * b at
\* u = b; samples of u <= 0.5 lie at or below x50 and samples of u <= b at
\* or below xp, so x50 is the median and xp the b-quantile.
C13_HockeyStickContinuous ==
    [][(InHockeyStick /\ pc = "hockey_stick" /\ pc' = "returned") =>
          LET x0 == args.range[1]
              x50 == args.range[2]
              x100 == args.range[3]
              b == args.percentile_break
              xp == x50 + ((x100 - x50) * b) \div FP
          IN /\ LowerSegment(FP \div 2, x0, x50) = x50
             /\ MiddleSegment(FP \div 2, x50, BreakPoint(x50, x100, b), b) = x50
             /\ MiddleSegment(b, x50, BreakPoint(x50, x100, b), b) = xp
             /\ TailSegment(b, BreakPoint(x50, x100, b), x100, b) = xp
             /\ \A k \in 1..args.n_samples :
                   LET u == Uniform(RawAt(rng, k))
                       x == effluent_conc'[k]
                   IN /\ u = FP \div 2 => x = x50
                      /\ u = b => x = xp
                      /\ u <= FP \div 2 => (x0 <= x /\ x <= x50)
                      /\ (FP \div 2 < u /\ u <= b) => (x50 < x /\ x <= xp)
                      /\ b < u => (xp < x /\ x <= x100)]_vars

\* a sample drawn at the breakpoint itself, for a breakpoint other than the
\* default
C13_Witness ==
    /\ InHockeyStick /\ Returned
    /\ args.percentile_break # PERCENTILE_BREAK
    /\ effluent_conc[1] =
           args.range[2] + ((args.range[3] - args.range[2]) * args.percentile_break) \div FP

\* C14: the infection probability is non-decreasing in the dose: for all
\* doses 0 <= d1 <= d2 of one call, and for the integer doses the
\* discretizer produced in a run, the probability of d1 is at most that of d2.
C14_ProbabilityNonDecreasing ==
    /\ (InDoseResponse /\ Returned) =>
          \A j, k \in 1..Len(args.dose) :
              (~IsNaN(args.dose[j]) /\ ~IsNaN(args.dose[k])
                 /\ 0 <= args.dose[j] /\ args.dose[j] <= args.dose[k])
                  => (~IsNaN(p_infection[j]) /\ ~IsNaN(p_infection[k])
                        /\ p_infection[j] <= p_infection[k])
    /\ InRun =>
          \A j, k \in 1..Len(p_infection) :
              doses_discrete[j] <= doses_discrete[k]
                  => p_infection[j] <= p_infection[k]

\* C15: every random draw of a run comes from a random source injected into
\* the call and none from implicit global random state, so that two runs with
\* identical inputs give identical arrays: no step of a run reads or
\* advances the global generator.
C15_NoDrawFromGlobalGenerator ==
    [][InRun => rng' = rng]_vars

\* the state the global generator had when the current call began: the one
\* state from which `draws` draws lead to the present state
GeneratorAtCall ==
    CHOOSE s \in 0..(RngModulus - 1) : RngAdvance(s, draws) = rng

\* C16: a run keeps no state across runs and shares no mutable state with
\* other runs: whatever a later run reads is, when a run ends, as that run
\* found it, so the later run's outcome does not depend on the earlier run.
C16_RunLeavesNoSharedState ==
    (InRun /\ Finished) => rng = GeneratorAtCall

\* C17: in every Site Result, risk_per_person_mean is the mean of
\* infections_distribution divided by num_people, and it lies in [0, 1].
C17_RiskPerPersonMean ==
    (InRun /\ Returned) =>
        LET r == results[1]
            mean == (SeqSum(r.infections_distribution) * FP)
                        \div Len(r.infections_distribution)
        IN /\ r.infections_mean = mean
           /\ r.risk_per_person_mean = mean \div r.num_people
           /\ 0 <= r.risk_per_person_mean
           /\ r.risk_per_person_mean <= FP

\* a result for several people whose mean infection count is at least one
\* person and whose risk per person is strictly between 0 and 1
C17_Witness ==
    /\ InRun /\ Returned
    /\ results[1].num_people = MaxPeople
    /\ results[1].infections_mean >= FP
    /\ 0 < results[1].risk_per_person_mean
    /\ results[1].risk_per_person_mean < FP

\* inputs as the quality report accepts them: positive effluent bounds with
\* min < median < max, iterations >= 1, and a non-empty set of positive
\* finite dilution observations
ValidInputs(a) ==
    /\ ~InvalidSiteConfiguration(a)
    /\ Len(a.dilution_data) > 0
    /\ \A k \in 1..Len(a.dilution_data) :
          IsFinite(a.dilution_data[k]) /\ a.dilution_data[k] > 0

C19_DilutionPositiveFinite ==
    InRun => \A k \in 1..Len(dilution_sampled) :
                 IsFinite(dilution_sampled[k]) /\ dilution_sampled[k] > 0

\* C20: in simple mode every cell uses meal_size_fixed and mhf_fixed and no
\* meal-size or BAF variate is drawn; in advanced mode every cell's meal size
\* comes from the truncated log-logistic sampler, and every cell's BAF is
\* mhf_fixed unless use_variable_baf is set, when it comes from sample_baf.
C20_ModeFlags ==
    [][(InRun /\ pc # "dose" /\ pc' = "dose") =>
          /\ Len(meal_sizes') = Cells /\ Len(bafs') = Cells
          /\ IF args.mode = "simple"
             THEN /\ \A k \in 1..Cells : /\ meal_sizes'[k] = args.meal_size_fixed
                                         /\ bafs'[k] = args.mhf_fixed
                  /\ samples' = <<>>
                  /\ draws = 2 * (Cells \div args.num_people)
                  /\ draws' = draws /\ rng' = rng
             ELSE /\ Len(samples') >= Cells
                  /\ draws - 2 * (Cells \div args.num_people) >= Cells
                  /\ \A k \in 1..Cells :
                        /\ meal_sizes'[k] = samples'[k]
                        /\ meal_sizes'[k] \in {FiskQuantiles[q] : q \in 1..Len(FiskQuantiles)}
                        /\ MEAL_SIZE_MIN <= meal_sizes'[k]
                        /\ meal_sizes'[k] <= MEAL_SIZE_MAX
                  /\ IF args.use_variable_baf
                     THEN /\ draws' = draws + Cells
                          /\ rng' = RngAdvance(rng, Cells)
                          /\ \A k \in 1..Cells :
                                bafs'[k] \in {FP} \cup {NormalRvs(raw, BAF_MEAN, BAF_STD) :
                                                         raw \in 0..(RngModulus - 1)}
                     ELSE /\ draws' = draws /\ rng' = rng
                          /\ \A k \in 1..Cells : bafs'[k] = args.mhf_fixed]_vars

\* advanced mode with a fixed BAF: sampled meal sizes that differ between
\* cells, and mhf_fixed in every cell
C20_Witness ==
    /\ InRun /\ pc = "dose" /\ args.mode = "advanced" /\ ~args.use_variable_baf
    /\ \E j, k \in 1..Cells : meal_sizes[j] # meal_sizes[k]
    /\ \A k \in 1..Cells : bafs[k] = args.mhf_fixed /\ meal_sizes[k] # args.meal_size_fixed

\* C21: in a run, the dose of individual j in scenario i is
\* (effluent_i / 10^log_removal_wwtp / dilution_i) * (meal[i][j] / 1000) *
\* baf[i][j]; there is one effluent and one dilution value per scenario,
\* drawn once and shared by all individuals of the scenario, and no other
\* scenario's value enters the dose
C21_DoseFromOwnScenario ==
    (InRun /\ doses_continuous # <<>>) =>
        /\ Len(effluent_conc) = args.iterations
        /\ Len(dilution_sampled) = args.iterations
        /\ Len(doses_continuous) = args.iterations * args.num_people
        /\ args.mode = "simple" => draws \in {2 * args.iterations,
                                              2 * args.iterations + Cells}
                                   \/ pc \notin {"dose", "infection", "error"}
        /\ \A i \in 1..args.iterations : \A j \in 1..args.num_people :
              LET k == (i - 1) * args.num_people + j
                  conc == FDiv(effluent_conc[i] \div (10 ^ args.log_removal_wwtp),
                               dilution_sampled[i])
              IN doses_continuous[k] =
                     FMul(FMul(conc, meal_sizes[k] \div 1000), bafs[k])

C21_Witness ==
    /\ InRun /\ args.mode = "simple"
    /\ args.iterations = 2 /\ args.num_people = 2
    /\ Len(doses_continuous) = 4
    /\ doses_continuous[1] = doses_continuous[2]
    /\ doses_continuous[3] # doses_continuous[1]

InMealLoop == InRun /\ pc = "meal_loop"

\* C22: sample_meal_size_loglogistic draws one variate per turn of its loop
\* and no number of draws ends the loop: it is left only when n values
\* inside the bounds have been accepted, a rejected variate leaving the list
\* as it was.  When the loop keeps turning and in-bounds variates keep being
\* drawn it ends and returns exactly n values, at once and empty when n = 0
C22_MealLoopEndsWithCount ==
    /\ [][InMealLoop =>
            /\ draws' \in {draws, draws + 1, draws + Cells}
            /\ KeepDrawing(samples, Cells) =>
                  /\ pc' = "meal_loop"
                  /\ draws' = draws + 1
                  /\ samples' = IF MealAccepted(FiskRvs(rng))
                                 THEN Append(samples, FiskRvs(rng))
                                 ELSE samples
            /\ Len(samples) >= Cells =>
                  /\ pc' = "dose"
                  /\ meal_sizes' = samples
                  /\ Len(meal_sizes') = Cells]_vars
    /\ InMealLoop ~>
          (InRun /\ pc = "dose" /\ Len(meal_sizes) = Cells
             /\ \A k \in 1..Cells : MealAccepted(meal_sizes[k]))

\* the loop has rejected variates and accepted one, and more are wanted
C22_Witness ==
    /\ InMealLoop
    /\ Cells > 1
    /\ Len(samples) = 1
    /\ draws > 2 * args.iterations + 2

\* the run loop has been entered
LoopEntered == main_pc \in {"loop", "complete", "failed"}

\* the Site Results so far are those of the first rows, in row order
ResultsInRowOrder(all, rows) ==
    /\ Len(all) <= Len(rows)
    /\ \A k \in 1..Len(all) : all[k].site_name = rows[k].Site_Name

\* C23: the run loop of main processes the sites one at a time in row
\* order: every draw from the generator is made by the run of the row the
\* loop is at, after the Site Results of all earlier rows were appended to
\* all_results, which holds the results in the order of the rows
C23_SitesOneAtATimeInRowOrder ==
    [][/\ ResultsInRowOrder(all_results', sites_df.rows)
       /\ rng' # rng =>
             /\ main_pc = "loop"
             /\ InRun
             /\ idx \in 1..Len(sites_df.rows)
             /\ args.site_name = sites_df.rows[idx].Site_Name
             /\ Len(all_results) = idx - 1
             /\ all_results' = all_results]_vars

\* the run of the second row has drawn, the first row's result is appended
C23_Witness ==
    /\ main_pc = "loop"
    /\ idx = 2
    /\ InRun
    /\ draws > 0
    /\ Len(all_results) = 1
    /\ all_results[1].site_name # args.site_name

\* C24: the run loop is reached only after check_data_quality returned
\* passed = True, which it does exactly when it collected no error; with an
\* error, a missing required column included, main stops before the loop
\* and nothing is run, while warnings and info never stop it
C24_LoopOnlyAfterPassedReport ==
    /\ LoopEntered => quality_report # <<>> /\ quality_report[1].passed
    /\ quality_report # <<>> =>
          LET report == quality_report[1]
          IN /\ report.passed <=> report.errors = {}
             /\ ColumnErrors(sites_df, dilutions_df) # {} => ~report.passed
             /\ report.errors # {} =>
                   /\ main_pc \in {"checked", "stopped"}
                   /\ pc = "idle" /\ draws = 0 /\ all_results = <<>>
             /\ report.errors = {} => main_pc # "stopped"

\* the loop runs although the report holds warnings and info
C24_Witness ==
    /\ main_pc = "loop"
    /\ InRun
    /\ quality_report[1].warnings # {}
    /\ quality_report[1].info # {}

\* C25: when the quality report passed, every row of sites_df has at least
\* one row of dilutions_df with its Site_Name, so the loop never skips a
\* site: it has appended one Site Result for every row it went past, and
\* when it completes there are as many Site Results as site rows
C25_NoSiteSkipped ==
    /\ (quality_report # <<>> /\ quality_report[1].passed) =>
          \A k \in 1..Len(sites_df.rows) :
              \E d \in 1..Len(dilutions_df.rows) :
                  dilutions_df.rows[d].Site_Name = sites_df.rows[k].Site_Name
    /\ main_pc \in {"loop", "failed"} => Len(all_results) = idx - 1
    /\ main_pc = "complete" => Len(all_results) = Len(sites_df.rows)

\* the loop completed over two sites
C25_Witness ==
    /\ main_pc = "complete"
    /\ Len(sites_df.rows) = 2
    /\ Len(all_results) = 2

\* C26: dilution_mean and dilution_median of a Site Result are taken over
\* the dilution array as the caller passed it: they are nan as soon as it
\* holds a missing value, although the run resampled the values that are
\* present, and are the mean and median of the resampled set only when no
\* value is missing
C26_DilutionSummaryOverRawArray ==
    (InRun /\ Returned) =>
        LET data == args.dilution_data
            present == RemoveNaN(data)
            result == results[1]
        IN /\ \A k \in 1..Len(dilution_sampled) :
                 \E m \in 1..Len(present) : dilution_sampled[k] = present[m]
           /\ HasNaN(data) =>
                 IsNaN(result.dilution_mean) /\ IsNaN(result.dilution_median)
           /\ ~HasNaN(data) =>
                 /\ result.dilution_mean = SeqSum(present) \div Len(present)
                 /\ result.dilution_median = NpPercentile(present, 50)

\* a run returned on an array with a missing and a present value
C26_Witness ==
    /\ InRun /\ Returned
    /\ HasNaN(args.dilution_data)
    /\ Len(RemoveNaN(args.dilution_data)) > 0
    /\ IsNaN(results[1].dilution_mean)

====
